---- MODULE Spec2Model ----
(***************************************************************************)
(* Model of VGrisu (src/src/VGrisu.cpp): the writer of grisudet readable   *)
(* output of CORSIKA results.                                              *)
(*                                                                         *)
(* Angles are carried on a grid whose unit is pi/2, so that 2*pi, 1.5*pi   *)
(* and the sines and cosines of every grid angle are integers.  Other      *)
(* floating values are carried as integers as well; the rounding of the    *)
(* float and double types is outside the model.  An output stream is       *)
(* modelled by its formatting state and by the fields it has been given,   *)
(* each recorded with the precision, sign mode and width in force when it  *)
(* was inserted.                                                           *)
(***************************************************************************)
EXTENDS Integers, Sequences, FiniteSets

VARIABLES
    vg,     \* the VGrisu instance
    vg2,    \* a second VGrisu instance of the same process (console twin)
    cout,   \* the process-wide console stream
    atm,    \* the process-wide atmosphere model (atmset_ / thickx_)
    proc,   \* the process: running or exited, exit status, calls made
    call,   \* the most recent call made on the instance and its arguments
    ang     \* the most recent direct call of redang / transformCoord

vars == <<vg, vg2, cout, atm, proc, call, ang>>

----------------------------------------------------------------------------
(* Bounds of the model *)

MaxCalls == 3       \* calls made on one instance
MaxAngle == 12      \* largest angle magnitude, in grid units (three turns)
MaxCoord == 2       \* largest coordinate magnitude

----------------------------------------------------------------------------
(* Angles *)

TwoPi == 4          \* 2. * M_PI in grid units
ThreeHalfPi == 3    \* 1.5 * M_PI in grid units
degrad == 90        \* 45. / atan( 1. ): degrees per radian, here per grid unit

\* int( n / d ): the C++ conversion to int truncates towards zero
trunc(n, d) == IF n >= 0 THEN n \div d ELSE -((-n) \div d)

sin(u) == CASE u % TwoPi = 0 -> 0
            [] u % TwoPi = 1 -> 1
            [] u % TwoPi = 2 -> 0
            [] u % TwoPi = 3 -> -1

cos(u) == sin(u + 1)

\* atan2( cy, cx ) for the axis directions
atan2(cy, cx) == CASE cy = 0 /\ cx >= 0 -> 0
                   [] cy > 0 /\ cx = 0 -> 1
                   [] cy = 0 /\ cx < 0 -> 2
                   [] cy < 0 /\ cx = 0 -> -1

\* acos( sqrt( max( 0, r ) ) ) for r = 1 - ( cx^2 + cy^2 )
zenithOf(r) == IF r > 0 THEN 0 ELSE 1

redang(iangle) ==
    IF iangle >= 0
    THEN iangle - trunc(iangle, TwoPi) * TwoPi
    ELSE TwoPi + iangle + trunc(iangle, TwoPi) * TwoPi

\* transformCoord with x taken from the y that was already overwritten
transformCoord_overwritten(az, x, y) ==
    LET y1 == -1 * x
        x1 == -1 * y1
    IN  [az |-> redang(ThreeHalfPi - redang(az)), x |-> x1, y |-> y1]

transformCoord(az, x, y) ==
    LET i_y == y
        y1 == -1 * x
        x1 == -1 * i_y
    IN  [az |-> redang(ThreeHalfPi - redang(az)), x |-> x1, y |-> y1]

----------------------------------------------------------------------------
(* Output streams *)

Str(s) == [k |-> "str", s |-> s, n |-> 0]
Flt(s, n) == [k |-> "flt", s |-> s, n |-> n]
Num(s, n) == [k |-> "int", s |-> s, n |-> n]
setprecision(n) == [k |-> "setprecision", s |-> "", n |-> n]
endl == [k |-> "endl", s |-> "", n |-> 0]

\* a stream nobody has configured: general notation, precision 6, no
\* explicit sign, no pending width
NewStream(open) ==
    [is_open |-> open, path |-> "", fixed |-> FALSE, prec |-> 6,
     showpos |-> FALSE, width |-> 0, lines |-> <<>>, cur |-> <<>>]

\* os << items[1] << items[2] << ... : a manipulator setprecision changes
\* the precision for all that follows; a field is rendered with the
\* precision and sign mode in force, the first field takes the pending
\* width and resets it; endl ends the line.  A stream that is not open
\* takes the formatting state and drops the text.
write(os, items) ==
    LET n == Len(items)
        idx == [i \in 1..n |-> i]
        isField(i) == items[i].k \notin {"setprecision", "endl"}
        fields == SelectSeq(idx, isField)
        ends == SelectSeq(idx, LAMBDA i : items[i].k = "endl")
        precs == SelectSeq(idx, LAMBDA i : items[i].k = "setprecision")
        precAt(i) ==
            LET before == SelectSeq(precs, LAMBDA j : j < i)
            IN  IF before = <<>> THEN os.prec
                ELSE items[before[Len(before)]].n
        widthAt(i) == IF fields[1] = i THEN os.width ELSE 0
        field(i) == [k |-> items[i].k, s |-> items[i].s, n |-> items[i].n,
                     prec |-> IF items[i].k = "flt" THEN precAt(i) ELSE 0,
                     sign |-> IF items[i].k = "str" THEN FALSE ELSE os.showpos,
                     w |-> widthAt(i)]
        between(lo, hi) ==
            LET sel == SelectSeq(fields, LAMBDA i : lo < i /\ i < hi)
            IN  [j \in 1..Len(sel) |-> field(sel[j])]
        line(e) ==
            IF e = 1 THEN os.cur \o between(0, ends[1])
            ELSE between(ends[e - 1], ends[e])
        newLines == [e \in 1..Len(ends) |-> line(e)]
        newCur == IF ends = <<>> THEN os.cur \o between(0, n + 1)
                  ELSE between(ends[Len(ends)], n + 1)
        state == [os EXCEPT !.prec = precAt(n + 1),
                            !.width = IF fields = <<>> THEN @ ELSE 0]
    IN  IF os.is_open
        THEN [state EXCEPT !.lines = @ \o newLines, !.cur = newCur]
        ELSE state

\* os.setf( ios::fixed | ios::right ); os.precision( 4 ); os.width( 15 );
formatPolicy(os) == [os EXCEPT !.fixed = TRUE, !.prec = 4, !.width = 15]

setf_showpos(os) == [os EXCEPT !.showpos = TRUE]

unsetf_showpos(os) == [os EXCEPT !.showpos = FALSE]

----------------------------------------------------------------------------
(* The atmosphere model: external routines atmset_ and thickx_ *)

NoAtmosphere == [ninit |-> 0, queries |-> 0, uninit_queries |-> 0]

\* atmset_( &atm_id, &observation_height ): initializes the model and
\* returns the observation level of the model
atmset_(a, id) ==
    [atm |-> [a EXCEPT !.ninit = @ + 1], observation_height |-> 1000 + id]

\* thickx_( &ih ): a slant-depth query; v is the value the routine returns
thickx_(a, ih, v) ==
    [atm |-> [a EXCEPT !.queries = @ + 1,
                       !.uninit_queries = IF a.ninit = 0 THEN @ + 1 ELSE @],
     value |-> v]

----------------------------------------------------------------------------
(* The particle map *)

EmptyMap == [k \in {} |-> 0]

mapSet(m, k, v) == [x \in DOMAIN m \cup {k} |-> IF x = k THEN v ELSE m[x]]

\* std::map::operator[]: a missing key is inserted with the value 0
mapSubscript(m, k) == IF k \in DOMAIN m THEN m ELSE mapSet(m, k, 0)

makeParticleMap ==
    LET p0 == EmptyMap
        p1 == mapSet(p0, 1, 1)        \* gamma
        p2 == mapSet(p1, 2, 2)        \* e
        p3 == mapSet(p2, 3, 3)        \* pos
        p4 == mapSet(p3, 5, 4)        \* mu+
        p5 == mapSet(p4, 6, 5)        \* mu-
        p6 == mapSet(p5, 7, 6)        \* pi0
        p7 == mapSet(p6, 8, 7)        \* pi+
        p8 == mapSet(p7, 9, 8)        \* pi-
        p9 == mapSet(p8, 11, 9)       \* k+
        p10 == mapSet(p9, 12, 10)     \* k-
        p11 == mapSet(p10, 10, 11)    \* k0long
        p12 == mapSet(p11, 16, 12)    \* k0short
        p13 == mapSet(p12, 14, 13)    \* proton
        p14 == mapSet(p13, 13, 14)    \* neutron
    IN  p14

----------------------------------------------------------------------------
(* Construction and selection of the destination *)

\* VGrisu::VGrisu( string iVersion, int id )
VGrisu(iVersion, id, a) ==
    LET set == atmset_(a, id)
    IN  [g |-> [fVersion |-> iVersion,
                bSTDOUT |-> FALSE,
                primID |-> 0,
                xoff |-> 0,
                yoff |-> 0,
                qeff |-> 1,
                observation_height |->
                    IF id >= 0 THEN set.observation_height ELSE 100,
                atm_id |-> id,
                particles |-> makeParticleMap,
                of_file |-> NewStream(FALSE)],
         atm |-> IF id >= 0 THEN set.atm ELSE a]

\* the status a parent process sees after exit( n )
ExitStatus(n) == n % 256

ErrorOpening == "VGrisu::setOutputfile: error opening outputfile: "

\* fstream::open fails on a stream that is open already, and where the
\* file system refuses the path (fs_ok = FALSE)
opens(os, fs_ok) == fs_ok /\ ~os.is_open

\* setOutputfile falling back to the console when the file cannot be opened
setOutputfile_fallback(g, c, a, ofile, fs_ok) ==
    IF ofile # "stdout" /\ opens(g.of_file, fs_ok)
    THEN [g |-> [g EXCEPT !.of_file =
                     formatPolicy([@ EXCEPT !.is_open = TRUE, !.path = ofile])],
          cout |-> c, atm |-> a, exited |-> FALSE, status |-> 0]
    ELSE [g |-> [g EXCEPT !.bSTDOUT = TRUE],
          cout |-> formatPolicy(c), atm |-> a, exited |-> FALSE, status |-> 0]

\* void VGrisu::setOutputfile( string ofile )
setOutputfile(g, c, a, ofile, fs_ok) ==
    IF ofile # "stdout"
    THEN IF ~opens(g.of_file, fs_ok)
         THEN [g |-> g,
               cout |-> write(c, <<Str(ErrorOpening), Str(ofile), endl>>),
               atm |-> a, exited |-> TRUE, status |-> ExitStatus(-1)]
         ELSE [g |-> [g EXCEPT !.of_file =
                          formatPolicy([@ EXCEPT !.is_open = TRUE,
                                                 !.path = ofile])],
               cout |-> c, atm |-> a, exited |-> FALSE, status |-> 0]
    ELSE [g |-> [g EXCEPT !.bSTDOUT = TRUE],
          cout |-> formatPolicy(c), atm |-> a, exited |-> FALSE, status |-> 0]

----------------------------------------------------------------------------
(* writeRunHeader *)

BufIdx == {2, 10, 11, 43, 44, 45, 47, 57, 58, 59, 60, 61, 62, 63, 70, 71}

HeaderBlank == <<endl>>

\* the kascade ID line written with particles[...] and no particles.find
kascadeID_noFind(m, code) ==
    [particles |-> mapSubscript(m, code),
     items |-> <<Str("\t\t\t Type code for primary particle (kascade ID) "),
                 Num("particles[( int )buf1[2]]", mapSubscript(m, code)[code]),
                 endl>>]

\* the kascade ID line: particles.find, then particles[...] or the note
kascadeID(m, code) ==
    IF code \in DOMAIN m
    THEN [particles |-> mapSubscript(m, code),
          items |-> <<Str("\t\t\t Type code for primary particle (kascade ID) "),
                      Num("particles[( int )buf1[2]]",
                          mapSubscript(m, code)[code]),
                      endl>>]
    ELSE [particles |-> m,
          items |-> <<Str("\t\t\t Type code for primary particle (kascade ID) \t unknown particle (for kascade)"),
                      endl>>]

\* f->printHeader( os ), the dump of the CORSIKA run header by its owner
printHeader(f) ==
    IF f THEN <<Str("VCORSIKARunheader::printHeader"), endl>> ELSE <<>>

\* lines common to both branches, in the order of the source
HeaderStart(g, buf1, dateEnd) ==
    << Str("* HEADF  <-- Start of header flag"), endl,
       endl,
       Str("photon list created with "), Str(g.fVersion), endl,
       endl,
       Str("       Photons generated by CORSIKA  (date: "),
           Num("( int )buf1[44]", buf1[44]), Str(dateEnd), endl,
       endl,
       Str("\t CORSIKA run number: "), Num("( int )buf1[43]", buf1[43]), endl,
       Str("\t CORSIKA version: "), Flt("buf1[45]", buf1[45]), endl,
       endl, endl,
       Str(" TITLE OF RUN: "), endl,
       Str("\t\t\t Primary energy<min.,max.> TeV = "),
       Flt("buf1[58] / 1.E3", buf1[58] \div 1000), Str("\t"),
           Flt("buf1[59] / 1.E3", buf1[59] \div 1000), endl,
       Str("\t\t\t Slope of energy spectrum: "), Flt("buf1[57]", buf1[57]), endl,
       Str("\t\t\t Type code for primary particle (CORSIKA ID) "),
           Num("( int )buf1[2]", buf1[2]), endl >>

PTypeLine(buf1) == << Str("PTYPE: "), Num("( int )buf1[2]", buf1[2]), endl >>

HeaderAngles(buf1, az) ==
    << Str("\t\t\t Primary zenith angle  (CORSIKA coord.): "),
           Flt("buf1[10] * degrad", buf1[10] * degrad), endl,
       Str("\t\t\t Primary azimuth angle (CORSIKA coord.): "),
           Flt("buf1[11] * degrad", buf1[11] * degrad), endl,
       Str("\t\t\t Primary zenith angle  (kascade coord.): "),
           Flt("buf1[10] * degrad", buf1[10] * degrad), endl,
       Str("\t\t\t Primary azimuth angle (kascade coord.): "),
           Flt("az* degrad", az * degrad), endl,
       Str("\t\t\t Magnetic field (x/z): "),
           Flt("buf1[70]", buf1[70]), Str("\t"), Flt("buf1[71]", buf1[71]), endl,
       Str("\t\t\t Observation height [m]: "),
           Flt("buf1[47] * 0.01", buf1[47] \div 100), endl,
       Str("\t\t\t Energy cuts (hadr./muon/el./phot.) [GeV]: "),
       Flt("buf1[60]", buf1[60]), Str("\t"), Flt("buf1[61]", buf1[61]), Str("\t"),
           Flt("buf1[62]", buf1[62]), Str("\t"), Flt("buf1[63]", buf1[63]), endl >>

HeaderEnd(g, f) ==
    << Str("CORSIKA RUN HEADER (START)"), endl >>
    \o printHeader(f) \o
    << Str("CORSIKA RUN HEADER (END)"), endl,
       endl,
       Str("* DATAF  <-- end of header flag"), endl,
       Str("R "), Flt("qeff", g.qeff), endl,
       Str("H "), Flt("observation_height", g.observation_height), endl >>

\* the branch if( !bSTDOUT ) of writeRunHeader
FileHeader(g, buf1, f, kascade, az) ==
    HeaderStart(g, buf1, ")") \o PTypeLine(buf1) \o kascade
        \o HeaderAngles(buf1, az) \o HeaderEnd(g, f)

\* the branch else of writeRunHeader
CoutHeader(g, buf1, f, kascade, az) ==
    HeaderStart(g, buf1, " C)") \o kascade \o PTypeLine(buf1)
        \o HeaderAngles(buf1, az) \o HeaderBlank \o HeaderEnd(g, f)

\* void VGrisu::writeRunHeader( float* buf1, VCORSIKARunheader* f )
writeRunHeader(g, c, a, buf1, f) ==
    LET kascade == kascadeID(g.particles, buf1[2])
        \* float x = 0.; float az = buf1[11]; transformCoord( az, x, x );
        az == transformCoord(buf1[11], 0, 0).az
    IN  IF ~g.bSTDOUT
        THEN [g |-> [g EXCEPT !.particles = kascade.particles,
                              !.of_file = write(@,
                                  FileHeader(g, buf1, f, kascade.items, az))],
              cout |-> c, atm |-> a, exited |-> FALSE, status |-> 0]
        ELSE [g |-> [g EXCEPT !.particles = kascade.particles],
              cout |-> write(c, CoutHeader(g, buf1, f, kascade.items, az)),
              atm |-> a, exited |-> FALSE, status |-> 0]

----------------------------------------------------------------------------
(* writeEvent *)

\* the first lines of writeEvent with the offsets stored after the transform
writeEventCoords_after(array) ==
    LET phi == array.azimuth \div degrad
        ze == (90 - array.altitude) \div degrad
        t == transformCoord(phi, array.xcore, array.ycore)
    IN  [phi |-> t.az, ze |-> ze, x |-> t.x, y |-> t.y,
         xoff |-> t.x, yoff |-> t.y]

\* the first lines of writeEvent: angles in radians, the offsets, the
\* transformation from CORSIKA to GrIsu coordinates
writeEventCoords(array) ==
    LET phi == array.azimuth \div degrad
        ze == (90 - array.altitude) \div degrad
        x == array.xcore
        y == array.ycore
        xoff == x
        yoff == y
        t == transformCoord(phi, x, y)
    IN  [phi |-> t.az, ze |-> ze, x |-> t.x, y |-> t.y,
         xoff |-> xoff, yoff |-> yoff]

\* if( fabs( d ) < 1.e-8 ) d = 0.;  on integers only 0 is that small
snap(d) == IF (IF d < 0 THEN -d ELSE d) < 1 THEN 0 ELSE d

\* thickx_( &ih ) / cos( ze ); the quotient by cos( pi/2 ) is not a number
\* of the model
slantDepth(v, ze) ==
    IF cos(ze) = 0 THEN Flt("thick (infinite)", 0) ELSE Flt("thick", v \div cos(ze))

SLine(array, x, y, dcos, dsin) ==
    << Str("S"),
       Str(" "), setprecision(7), Flt("array.shower_sim.energy", array.energy),
       Str(" "), setprecision(7), Flt("x", x),
       Str(" "), setprecision(7), Flt("y", y),
       Str(" "), setprecision(7), Flt("dcos", dcos),
       Str(" "), setprecision(7), Flt("dsin", dsin),
       Str(" "), setprecision(7), Flt("array.shower_sim.firstint", array.firstint),
       Str(" "), Num("-1", -1),
       Str(" "), Num("-1", -1),
       Str(" "), Num("-1", -1),
       endl >>

CLine(array, thick) ==
    << Str("C "), setprecision(7),
       Flt("array.shower_sim.firstint", array.firstint),
       Str(" "), thick,
       Str(" "), Num("array.shower_sim.shower_id", array.shower_id), endl >>

\* void VGrisu::writeEvent( telescope_array array, bool printMoreInfo );
\* v is the value thickx_ returns when it is called
writeEvent(g, c, a, array, printMoreInfo, v) ==
    LET co == writeEventCoords(array)
        dcos == snap(sin(co.ze) * cos(co.phi))
        dsin == snap(sin(co.ze) * sin(co.phi))
        ih == 100 * array.firstint
        query == thickx_(a, ih, v)
        thick == IF printMoreInfo THEN slantDepth(query.value, co.ze)
                                  ELSE Flt("thick", -1)
        items == SLine(array, co.x, co.y, dcos, dsin)
                 \o (IF printMoreInfo THEN CLine(array, thick) ELSE <<>>)
        g1 == [g EXCEPT !.xoff = co.xoff, !.yoff = co.yoff]
    IN  [g |-> IF ~g.bSTDOUT THEN [g1 EXCEPT !.of_file = write(@, items)]
                             ELSE g1,
         cout |-> IF ~g.bSTDOUT THEN c ELSE write(c, items),
         atm |-> IF printMoreInfo THEN query.atm ELSE a,
         exited |-> FALSE, status |-> 0]

----------------------------------------------------------------------------
(* writePhotons *)

PLine(i_bunch, i_tel, x, y, ze, az) ==
    << Str("P"), Str(" "),
       setprecision(7), Flt("x", x), Str(" "),
       setprecision(7), Flt("y", y), Str(" "),
       setprecision(7), Flt("sin( ze ) * cos( az )", sin(ze) * cos(az)), Str(" "),
       setprecision(7), Flt("sin( ze ) * sin( az )", sin(ze) * sin(az)), Str(" "),
       setprecision(7), Flt("i_bunch.zem", i_bunch.zem), Str(" "),
       setprecision(7), Flt("i_bunch.ctime", i_bunch.ctime), Str(" "),
       Num("( int )i_bunch.lambda", i_bunch.lambda), Str(" "),
       Num("3", 3), Str(" "),
       Num("i_tel + 1", i_tel + 1),
       endl >>

\* the photon line written without os.unsetf( ios::showpos ) at the end
photonLine_noUnset(os, items) == write(setf_showpos(os), items)

\* os.setf( ios::showpos ); the P line; os.unsetf( ios::showpos );
photonLine(os, items) == unsetf_showpos(write(setf_showpos(os), items))

\* void VGrisu::writePhotons( bunch i_bunch, int i_tel )
writePhotons(g, c, a, i_bunch, i_tel) ==
    LET az0 == atan2(i_bunch.cy, i_bunch.cx)
        ze == zenithOf(1 - (i_bunch.cx * i_bunch.cx + i_bunch.cy * i_bunch.cy))
        t == transformCoord(az0, i_bunch.x, i_bunch.y)
        items == PLine(i_bunch, i_tel, t.x, t.y, ze, t.az)
    IN  [g |-> IF ~g.bSTDOUT THEN [g EXCEPT !.of_file = photonLine(@, items)]
                             ELSE g,
         cout |-> IF ~g.bSTDOUT THEN c ELSE photonLine(c, items),
         atm |-> a, exited |-> FALSE, status |-> 0]

----------------------------------------------------------------------------
(* The callers: inputs *)

Version == "corsikaIOreader"
AtmIds == {-1, 1}
OutputFiles == {"stdout", "a.grisu", "b.grisu"}
PrimaryCodes == {14, 4, 99}
HeaderAzimuths == {-5}

Buf(code, az) ==
    [i \in BufIdx |-> CASE i = 2 -> code
                        [] i = 11 -> az
                        [] i = 10 -> 0
                        [] i = 58 -> 1000
                        [] i = 59 -> 2000
                        [] OTHER -> 1]

Arrays ==
    { [azimuth |-> c[1], altitude |-> alt, xcore |-> c[2], ycore |-> c[3],
       energy |-> 1, firstint |-> 10, shower_id |-> 1] :
        c \in {<<0, 0, 0>>, <<-450, 1, 2>>}, alt \in {90, 0} }

ThickValues == {0, 7}

Bunches ==
    { [x |-> 1, y |-> -2, cx |-> d[1], cy |-> d[2],
       zem |-> 5, ctime |-> 3, lambda |-> 400] :
        d \in {<<0, 0>>, <<0, -1>>, <<-1, 0>>} }

Telescopes == {0}

NoCall == [op |-> "none", args |-> <<>>]
NoAngle == [op |-> "none", az |-> 0, x |-> 0, y |-> 0,
            raz |-> 0, rx |-> 0, ry |-> 0]
Running == [exited |-> FALSE, status |-> 0, ncalls |-> 0]

----------------------------------------------------------------------------
(* One instance *)

Init ==
    \E id \in AtmIds :
        LET made == VGrisu(Version, id, NoAtmosphere)
        IN  /\ vg = made.g
            /\ atm = made.atm
            /\ vg2 = "none"
            /\ cout = NewStream(TRUE)
            /\ proc = Running
            /\ call = NoCall
            /\ ang = NoAngle

CanCall == ~proc.exited /\ proc.ncalls < MaxCalls

Result(r, c) ==
    /\ vg' = r.g
    /\ cout' = r.cout
    /\ atm' = r.atm
    /\ proc' = [exited |-> r.exited, status |-> r.status,
                ncalls |-> proc.ncalls + 1]
    /\ call' = c
    /\ UNCHANGED <<vg2, ang>>

SetOutputfile ==
    /\ CanCall
    /\ \E ofile \in OutputFiles, fs_ok \in BOOLEAN :
          /\ (ofile = "stdout" => fs_ok)
          /\ Result(setOutputfile(vg, cout, atm, ofile, fs_ok),
                    [op |-> "setOutputfile",
                     args |-> [ofile |-> ofile,
                               opened |-> ofile # "stdout"
                                          /\ opens(vg.of_file, fs_ok)]])

WriteRunHeader ==
    /\ CanCall
    /\ \E code \in PrimaryCodes, az \in HeaderAzimuths, f \in BOOLEAN :
          Result(writeRunHeader(vg, cout, atm, Buf(code, az), f),
                 [op |-> "writeRunHeader", args |-> [code |-> code, az |-> az]])

WriteEvent ==
    /\ CanCall
    /\ \E array \in Arrays, printMoreInfo \in BOOLEAN, v \in ThickValues :
          /\ (~printMoreInfo => v = 0)
          /\ Result(writeEvent(vg, cout, atm, array, printMoreInfo, v),
                    [op |-> "writeEvent",
                     args |-> [array |-> array, printMoreInfo |-> printMoreInfo]])

WritePhotons ==
    /\ CanCall
    /\ \E i_bunch \in Bunches, i_tel \in Telescopes :
          Result(writePhotons(vg, cout, atm, i_bunch, i_tel),
                 [op |-> "writePhotons", args |-> [i_bunch |-> i_bunch]])

Next == SetOutputfile \/ WriteRunHeader \/ WriteEvent \/ WritePhotons

Spec == Init /\ [][Next]_vars

----------------------------------------------------------------------------
(* Two instances built with the same arguments: vg writes to a file, vg2 to *)
(* the console, and every call is made on both with the same arguments      *)

InitPair ==
    \E id \in AtmIds :
        LET made == VGrisu(Version, id, NoAtmosphere)
            twin == VGrisu(Version, id, made.atm)
        IN  /\ vg = made.g
            /\ vg2 = twin.g
            /\ atm = twin.atm
            /\ cout = NewStream(TRUE)
            /\ proc = Running
            /\ call = NoCall
            /\ ang = NoAngle

ResultPair(r1, r2, c) ==
    /\ vg' = r1.g
    /\ vg2' = IF r1.exited THEN vg2 ELSE r2.g
    /\ cout' = IF r1.exited THEN r1.cout ELSE r2.cout
    /\ atm' = IF r1.exited THEN r1.atm ELSE r2.atm
    /\ proc' = [exited |-> r1.exited \/ r2.exited,
                status |-> IF r1.exited THEN r1.status ELSE r2.status,
                ncalls |-> proc.ncalls + 1]
    /\ call' = c
    /\ UNCHANGED ang

PairSetOutputfile ==
    /\ CanCall
    /\ \E ofile \in OutputFiles \ {"stdout"}, fs_ok \in BOOLEAN :
          LET r1 == setOutputfile(vg, cout, atm, ofile, fs_ok)
              r2 == setOutputfile(vg2, r1.cout, r1.atm, "stdout", TRUE)
          IN  ResultPair(r1, r2,
                         [op |-> "setOutputfile",
                          args |-> [ofile |-> ofile,
                                    opened |-> opens(vg.of_file, fs_ok)]])

PairWriteRunHeader ==
    /\ CanCall
    /\ \E code \in PrimaryCodes, az \in HeaderAzimuths, f \in BOOLEAN :
          LET r1 == writeRunHeader(vg, cout, atm, Buf(code, az), f)
              r2 == writeRunHeader(vg2, r1.cout, r1.atm, Buf(code, az), f)
          IN  ResultPair(r1, r2, [op |-> "writeRunHeader",
                                  args |-> [code |-> code, az |-> az]])

PairWriteEvent ==
    /\ CanCall
    /\ \E array \in Arrays, printMoreInfo \in BOOLEAN, v \in ThickValues :
          /\ (~printMoreInfo => v = 0)
          /\ LET r1 == writeEvent(vg, cout, atm, array, printMoreInfo, v)
                 r2 == writeEvent(vg2, r1.cout, r1.atm, array, printMoreInfo, v)
             IN  ResultPair(r1, r2,
                            [op |-> "writeEvent",
                             args |-> [array |-> array,
                                       printMoreInfo |-> printMoreInfo]])

PairWritePhotons ==
    /\ CanCall
    /\ \E i_bunch \in Bunches, i_tel \in Telescopes :
          LET r1 == writePhotons(vg, cout, atm, i_bunch, i_tel)
              r2 == writePhotons(vg2, r1.cout, r1.atm, i_bunch, i_tel)
          IN  ResultPair(r1, r2, [op |-> "writePhotons",
                                  args |-> [i_bunch |-> i_bunch]])

NextPair ==
    PairSetOutputfile \/ PairWriteRunHeader \/ PairWriteEvent \/ PairWritePhotons

SpecPair == InitPair /\ [][NextPair]_vars

----------------------------------------------------------------------------
(* The angle functions called on their own *)

Angles == (-MaxAngle)..MaxAngle
Coords == (-MaxCoord)..MaxCoord

CallRedang ==
    /\ \E a \in Angles :
          ang' = [op |-> "redang", az |-> a, x |-> 0, y |-> 0,
                  raz |-> redang(a), rx |-> 0, ry |-> 0]
    /\ UNCHANGED <<vg, vg2, cout, atm, proc, call>>

CallTransformCoord ==
    /\ \E az \in Angles, x \in Coords, y \in Coords :
          LET t == transformCoord(az, x, y)
          IN  ang' = [op |-> "transformCoord", az |-> az, x |-> x, y |-> y,
                      raz |-> t.az, rx |-> t.x, ry |-> t.y]
    /\ UNCHANGED <<vg, vg2, cout, atm, proc, call>>

NextAngle == CallRedang \/ CallTransformCoord

SpecAngle == Init /\ [][NextAngle]_vars

----------------------------------------------------------------------------
(* Reading the output *)

Tag(line) == IF line = <<>> THEN "" ELSE line[1].s

Lines(os) == {os.lines[i] : i \in 1..Len(os.lines)}

Numeric(line) == {j \in 1..Len(line) : line[j].k \in {"flt", "int"}}

Floats(line) == {j \in 1..Len(line) : line[j].k = "flt"}

IsDiagnostic(line) == Tag(line) = ErrorOpening

IsHeaderLine(line) == Tag(line) \notin {"S", "C ", "P", ErrorOpening}

\* the stream the writers of an instance address
Dest(g) == IF g.bSTDOUT THEN cout ELSE g.of_file

Selected(g) == g.bSTDOUT \/ g.of_file.is_open

LastLine(os) == os.lines[Len(os.lines)]

\* the last S line of a stream
LastS(os) ==
    LET at == {i \in 1..Len(os.lines) : Tag(os.lines[i]) = "S"}
    IN  os.lines[CHOOSE i \in at : \A j \in at : j <= i]

\* the lines of the last run header of a stream
LastHeader(os) ==
    LET at == {i \in 1..Len(os.lines) :
                  Tag(os.lines[i]) = "* HEADF  <-- Start of header flag"}
    IN  (CHOOSE i \in at : \A j \in at : j <= i)..Len(os.lines)

FailedOpen ==
    /\ call.op = "setOutputfile"
    /\ call.args.ofile # "stdout"
    /\ ~call.args.opened

----------------------------------------------------------------------------
(* Claims *)

\* C1: redang(a) is a modulo 2*pi for every angle a: the value in [0, 2*pi)
\* that differs from a by a multiple of 2*pi.
C1_RedangIsModulo ==
    ang.op = "redang" => ang.raz = ang.az % TwoPi

C3_SameLines ==
    (~proc.exited /\ vg.of_file.is_open /\ vg2.bSTDOUT) =>
        vg.of_file.lines = cout.lines

\* C4: once a destination is selected the writers address it for the rest of
\* the lifetime of the instance, whatever call follows, and after the
\* selection of the console no line reaches the file.
C4_SelectionIsFinal ==
    [][ /\ Selected(vg) => vg'.bSTDOUT = vg.bSTDOUT
        /\ vg.bSTDOUT => vg'.of_file.lines = vg.of_file.lines ]_vars

C6_ExplicitSignOnPLinesOnly ==
    \A os \in {vg.of_file, cout} :
        /\ ~os.showpos
        /\ \A line \in Lines(os) : \A j \in Numeric(line) :
              line[j].sign <=> (Tag(line) = "P")

C6_Witness ==
    \E os \in {vg.of_file, cout} : \E i, j \in 1..Len(os.lines) :
        /\ i < j
        /\ Tag(os.lines[i]) = "P"
        /\ Tag(os.lines[j]) = "S"
        /\ Numeric(os.lines[j]) # {}

\* C7: every floating field of every run header line is rendered with the
\* precision 4, also in a run header written after writeEvent or
\* writePhotons.
C7_HeaderPrecision ==
    \A os \in {vg.of_file, cout} : \A line \in Lines(os) :
        IsHeaderLine(line) => \A j \in Floats(line) : line[j].prec = 4

\* C8: the particle map is the table of 14 entries after any sequence of
\* calls; a run header for a code that is not in the table carries the note
\* "unknown particle" and is written to its end.
ParticleTable ==
    [k \in {1, 2, 3, 5, 6, 7, 8, 9, 11, 12, 10, 16, 14, 13} |->
        CASE k = 1 -> 1 [] k = 2 -> 2 [] k = 3 -> 3 [] k = 5 -> 4
          [] k = 6 -> 5 [] k = 7 -> 6 [] k = 8 -> 7 [] k = 9 -> 8
          [] k = 11 -> 9 [] k = 12 -> 10 [] k = 10 -> 11 [] k = 16 -> 12
          [] k = 14 -> 13 [] k = 13 -> 14]

UnknownParticle ==
    "\t\t\t Type code for primary particle (kascade ID) \t unknown particle (for kascade)"

C8_ParticleMapFixed ==
    /\ vg.particles = ParticleTable
    /\ Cardinality(DOMAIN vg.particles) = 14
    /\ (call.op = "writeRunHeader" /\ Dest(vg).is_open) =>
          /\ ~proc.exited
          /\ Tag(LastLine(Dest(vg))) = "H "
          /\ (call.args.code \notin DOMAIN ParticleTable =>
                 \E i \in LastHeader(Dest(vg)) :
                     Tag(Dest(vg).lines[i]) = UnknownParticle)

C8_Witness ==
    /\ call.op = "writeRunHeader"
    /\ call.args.code = 99
    /\ Dest(vg).is_open
    /\ \E i \in LastHeader(Dest(vg)) : Tag(Dest(vg).lines[i]) = UnknownParticle

\* C9: the atmosphere model is initialized at most once, at construction and
\* only for an identifier >= 0, and no slant-depth query is made of a model
\* that was not initialized.
C9_QueriesAfterInit ==
    /\ atm.ninit <= 1
    /\ (atm.ninit = 1 <=> vg.atm_id >= 0)
    /\ atm.uninit_queries = 0

\* C10 as stated: after writeEvent (xoff, yoff) is the transformed core
\* position (-ycore, -xcore) that the S line prints.
C10_OffsetsAreTransformed ==
    call.op = "writeEvent" =>
        /\ vg.xoff = -call.args.array.ycore
        /\ vg.yoff = -call.args.array.xcore

\* C10 as amended: after writeEvent (xoff, yoff) is the core position
\* (xcore, ycore) as given, before the transformation, so that the S line
\* prints (-yoff, -xoff); no other operation changes xoff or yoff.
C10_OffsetsAreCorePosition ==
    /\ [](call.op = "writeEvent" =>
            /\ vg.xoff = call.args.array.xcore
            /\ vg.yoff = call.args.array.ycore
            /\ (Dest(vg).is_open =>
                    /\ LastS(Dest(vg))[5].n = -vg.yoff
                    /\ LastS(Dest(vg))[7].n = -vg.xoff))
    /\ [][call'.op # "writeEvent" =>
            (vg'.xoff = vg.xoff /\ vg'.yoff = vg.yoff)]_vars

C10_Witness ==
    /\ call.op = "writeEvent"
    /\ call.args.array.xcore = 1
    /\ call.args.array.ycore = 2
    /\ Dest(vg).is_open
    /\ LastS(Dest(vg))[5].n = -2

====
